---- MODULE Spec2Model ----
(***************************************************************************)
(* Durable step-execution engine (graph_states attempt history, retry with *)
(* tracked backoff, stop_after pause, resume) and the deterministic        *)
(* scheduler (queue, policy, stats, lease/step coordinator) of the         *)
(* ai-csuite orchestrator.                                                 *)
(***************************************************************************)
EXTENDS Integers, Sequences, FiniteSets, TLC

VARIABLES
    history,      \* graph_states rows of every run: run -> set of StepAttempt
    run_status,   \* runs.status of every run
    qa_loops,     \* QA<->ENG loop counter carried in the run's accumulated state
    cur,          \* the call in progress (no threads: at most one), or Idle
    queue,        \* scheduler queue: set of QueueEntry
    active,       \* scheduler: leased and not yet released run ids
    policy,       \* scheduler policy (in-memory)
    stats,        \* scheduler counters
    resp,         \* response of the last control-surface call
    leased        \* `leased` of the last step() response: a run id, or 0 for null

vars == <<history, run_status, qa_loops, cur, queue, active, policy, stats, resp, leased>>

----------------------------------------------------------------------------
(* Bounds of the model *)

MaxLeases == 3      \* cap of the leases counter
MaxSkips == 1       \* cap of the skipped_due_to_quota counter
MaxErrorRows == 5   \* most error rows kept per (run, step index)
MaxStoreStep == 2   \* highest step index handed to record() directly
MaxStoreAttempt == 2   \* highest attempt number handed to record() directly

(* Program constants *)

MAX_ATTEMPTS == 3
BACKOFF_BASE == 1
DEFAULT_MAX_QA_LOOPS == 3
SCHED_CONCURRENCY == 2
SCHED_TENANT_MAX_ACTIVE == 1
SCHED_QUEUE_MAX == 100

----------------------------------------------------------------------------
(* Runs, tenants, graph definition *)

Runs == {1, 2, 3}

\* runs.tenant_id: runs 1 and 2 belong to tenant 1, run 3 to tenant 2
TenantOf(r) == IF r = 3 THEN 2 ELSE 1

STEPS == <<"product", "design", "research", "cto_plan", "engineer", "qa", "release">>

NSteps == Len(STEPS)

StepIndexes == 1..NSteps

NoStep == "none"

Statuses == {"pending", "running", "paused", "completed", "failed"}

----------------------------------------------------------------------------
(* Attempt Store *)

\* rows of one step index
RowsOf(h, i) == {x \in h : x.step_index = i}

HasOk(h, i) == \E x \in RowsOf(h, i) : x.status = "ok"

KeyExists(h, i, n) == \E x \in h : x.step_index = i /\ x.attempt = n

\* variant: an existing row is overwritten (upsert)
RecordUpsert(h, row) ==
    {x \in h : ~(x.step_index = row.step_index /\ x.attempt = row.attempt)} \cup {row}

\* variant: only successful attempts are persisted
RecordOkOnly(h, row) ==
    IF KeyExists(h, row.step_index, row.attempt) \/ row.status = "error" THEN h ELSE h \cup {row}

\* variant: only the latest attempt of a step is kept
RecordKeepsLatest(h, row) == {x \in h : x.step_index # row.step_index} \cup {row}

\* record(): the unique index (run_id, step_index, attempt) rejects a duplicate key
Record(h, row) == IF KeyExists(h, row.step_index, row.attempt) THEN h ELSE h \cup {row}

RecordConflicts(h, row) == KeyExists(h, row.step_index, row.attempt)

\* variant: numbers the attempt after all rows of the run, not those of step i
NextAttemptNoOfRun(h, i) == Cardinality(h) + 1

\* variant: the number of rows is taken without adding one
NextAttemptNoStale(h, i) == IF RowsOf(h, i) = {} THEN 1 ELSE Cardinality(RowsOf(h, i))

\* the attempt number the Retry Controller gives the next attempt of step i
NextAttemptNo(h, i) == Cardinality(RowsOf(h, i)) + 1

----------------------------------------------------------------------------
(* Resume Controller *)

\* variant: resumes at the last step that has an ok attempt instead of after it
NextStepAtLastOk(h) ==
    IF \A i \in StepIndexes : ~HasOk(h, i) THEN 1
    ELSE CHOOSE i \in StepIndexes : HasOk(h, i) /\ \A j \in (i + 1)..NSteps : ~HasOk(h, j)

\* variant: continues after the last step that has any attempt, ok or not
NextStepAfterLastRow(h) ==
    IF \A i \in StepIndexes : RowsOf(h, i) # {} THEN NSteps + 1
    ELSE CHOOSE i \in StepIndexes : RowsOf(h, i) = {} /\ \A j \in 1..(i - 1) : RowsOf(h, j) # {}

\* variant: the resume point is taken one position too far, as if steps were counted from 0
NextStepZeroBased(h) ==
    IF \A i \in StepIndexes : HasOk(h, i) THEN NSteps + 1
    ELSE LET n == CHOOSE i \in StepIndexes : ~HasOk(h, i) /\ \A j \in 1..(i - 1) : HasOk(h, j)
         IN IF n < NSteps THEN n + 1 ELSE n

\* next_step: the lowest-indexed step with no ok attempt; NSteps + 1 when nothing is left
NextStep(h) ==
    IF \A i \in StepIndexes : HasOk(h, i) THEN NSteps + 1
    ELSE CHOOSE i \in StepIndexes : ~HasOk(h, i) /\ \A j \in 1..(i - 1) : HasOk(h, j)

----------------------------------------------------------------------------
(* Controls of a start/resume call *)

Idle ==
    [op |-> "idle", run |-> 0, phase |-> "idle", stop_after |-> NoStep, inj_step |-> NoStep,
     inj_times |-> 0, force_qa_fail |-> FALSE, max_qa_loops |-> DEFAULT_MAX_QA_LOOPS,
     accept_degraded |-> FALSE, tries |-> 0, backoff |-> <<>>]

Call(op, r, c) ==
    [op |-> op, run |-> r, phase |-> "exec", stop_after |-> c.stop_after,
     inj_step |-> c.inj_step, inj_times |-> c.inj_times, force_qa_fail |-> c.force_qa_fail,
     max_qa_loops |-> c.max_qa_loops, accept_degraded |-> c.accept_degraded,
     tries |-> 0, backoff |-> <<>>]

DefaultControls ==
    [stop_after |-> NoStep, inj_step |-> NoStep, inj_times |-> 0, force_qa_fail |-> FALSE,
     max_qa_loops |-> DEFAULT_MAX_QA_LOOPS, accept_degraded |-> FALSE]

\* request bodies of start: stop_after, inject_failures, force_qa_fail / max_qa_loops
StartControls ==
    {DefaultControls,
     [DefaultControls EXCEPT !.stop_after = "research"],
     [DefaultControls EXCEPT !.stop_after = "release"],
     [DefaultControls EXCEPT !.inj_step = "design", !.inj_times = 1],
     [DefaultControls EXCEPT !.inj_step = "research", !.inj_times = 3],
     [DefaultControls EXCEPT !.stop_after = "research", !.inj_step = "design", !.inj_times = 2],
     [DefaultControls EXCEPT !.stop_after = "research", !.inj_step = "research", !.inj_times = 3],
     [DefaultControls EXCEPT !.force_qa_fail = TRUE, !.max_qa_loops = 1, !.accept_degraded = TRUE],
     [DefaultControls EXCEPT !.force_qa_fail = TRUE, !.max_qa_loops = 2]}

\* resume takes no stop_after
ResumeControls == {c \in StartControls : c.stop_after = NoStep}

\* a leased run's steps succeed, or its research step keeps failing
LeaseControls(r) ==
    IF r = 3 THEN {DefaultControls, [DefaultControls EXCEPT !.inj_step = "research", !.inj_times = 3]}
    ELSE {DefaultControls}

Priorities == {0, 1}

\* enqueued_at timestamps
Times == {0, 1}

\* runs driven by direct start/resume calls
DirectRuns == {1, 2}

\* PATCH /scheduler/policy bodies
PolicyChoices ==
    {[global_concurrency |-> 2, tenant_max_active |-> 1, queue_max |-> 100, enabled |-> TRUE],
     [global_concurrency |-> 1, tenant_max_active |-> 1, queue_max |-> 2, enabled |-> TRUE],
     [global_concurrency |-> 0, tenant_max_active |-> 1, queue_max |-> 100, enabled |-> TRUE],
     [global_concurrency |-> 2, tenant_max_active |-> 0, queue_max |-> 1, enabled |-> TRUE],
     [global_concurrency |-> 2, tenant_max_active |-> 1, queue_max |-> 100, enabled |-> FALSE]}

----------------------------------------------------------------------------
(* Step Executor: outcome of one attempt under the call's controls *)

\* inject_failures: the named step raises on the first inj_times attempts of the call
StepRaises(c, i) == STEPS[i] = c.inj_step /\ c.tries < c.inj_times

\* force_qa_fail: the QA step's verification does not pass
QaNotPassed(c, i) == STEPS[i] = "qa" /\ c.force_qa_fail

\* variant: the loop budget is not consulted
LoopsBackUnbounded(c, i, loops) == ~StepRaises(c, i) /\ QaNotPassed(c, i)

\* a QA iteration that did not pass loops back while the loop budget lasts
LoopsBack(c, i, loops) == ~StepRaises(c, i) /\ QaNotPassed(c, i) /\ loops < c.max_qa_loops

AttemptStatus(c, i, loops) ==
    IF StepRaises(c, i) THEN "error"
    ELSE IF QaNotPassed(c, i)
         THEN IF loops >= c.max_qa_loops /\ c.accept_degraded THEN "ok" ELSE "error"
         ELSE "ok"

AttemptError(c, i, loops) ==
    IF AttemptStatus(c, i, loops) = "ok" THEN "null"
    ELSE IF StepRaises(c, i) THEN "injected_failure" ELSE "qa_failed"

----------------------------------------------------------------------------
(* Retry Controller *)

\* variant: the same delay before every retry
BackoffDelayConstant(k) == BACKOFF_BASE

\* tracked backoff before the attempt that follows the k-th failure: base * 2^(k-1)
BackoffDelay(k) == BACKOFF_BASE * (2 ^ (k - 1))

\* variant: gives up one attempt early
RetryExhaustedEarly(tries) == tries >= MAX_ATTEMPTS - 1

\* variant: gives up one attempt late
RetryExhaustedLate(tries) == tries > MAX_ATTEMPTS

RetryExhausted(tries) == tries >= MAX_ATTEMPTS

\* variant: stop_after is ignored
StatusAfterNoPause(c, i, st, tries) ==
    IF st = "ok"
    THEN IF i = NSteps THEN "completed" ELSE "running"
    ELSE IF RetryExhausted(tries) THEN "failed" ELSE "running"

\* variant: the run is paused before the stop_after step instead of after it
StatusAfterPausesBefore(c, i, st, tries) ==
    IF st = "ok"
    THEN IF i = NSteps THEN "completed"
         ELSE IF STEPS[i + 1] = c.stop_after THEN "paused"
         ELSE "running"
    ELSE IF RetryExhausted(tries) THEN "failed" ELSE "running"

\* variant: a run whose step exhausted its retries is marked paused
StatusAfterFailedAsPaused(c, i, st, tries) ==
    IF st = "ok"
    THEN IF i = NSteps THEN "completed"
         ELSE IF STEPS[i] = c.stop_after THEN "paused"
         ELSE "running"
    ELSE IF RetryExhausted(tries) THEN "paused" ELSE "running"

\* variant: stopping at stop_after is taken for the end of the graph
StatusAfterStopCompletes(c, i, st, tries) ==
    IF st = "ok"
    THEN IF i = NSteps \/ STEPS[i] = c.stop_after THEN "completed" ELSE "running"
    ELSE IF RetryExhausted(tries) THEN "failed" ELSE "running"

\* run status after an attempt of step i with status st, the call having made `tries` attempts
StatusAfter(c, i, st, tries) ==
    IF st = "ok"
    THEN IF i = NSteps THEN "completed"
         ELSE IF STEPS[i] = c.stop_after THEN "paused"
         ELSE "running"
    ELSE IF RetryExhausted(tries) THEN "failed" ELSE "running"

\* the call's record when the run stops being advanced by it
Finish(c) == IF c.op = "step" THEN [c EXCEPT !.phase = "release"] ELSE Idle

\* the controls make some attempt fail
MayFail(c) == c.inj_times > 0 \/ c.force_qa_fail

\* the steps the controls make fail
FailSteps(c) ==
    {i \in StepIndexes : (STEPS[i] = c.inj_step /\ c.inj_times > 0)
                          \/ (STEPS[i] = "qa" /\ c.force_qa_fail)}

\* a call whose controls make attempts fail is taken only while the error rows fit the model
FitsRows(h, c) ==
    \A i \in FailSteps(c) :
        ~HasOk(h, i) =>
            Cardinality({x \in RowsOf(h, i) : x.status = "error"}) + MAX_ATTEMPTS <= MaxErrorRows

----------------------------------------------------------------------------
(* Scheduler queue and policy *)

Queued(r) == \E e \in queue : e.run_id = r

\* variant: lower priority first
BeforeAscending(a, b) ==
    \/ a.priority < b.priority
    \/ a.priority = b.priority /\ a.enqueued_at < b.enqueued_at
    \/ a.priority = b.priority /\ a.enqueued_at = b.enqueued_at /\ a.run_id < b.run_id

\* variant: the priority is left out of the sort key
BeforeIgnoresPriority(a, b) ==
    \/ a.enqueued_at < b.enqueued_at
    \/ a.enqueued_at = b.enqueued_at /\ a.run_id < b.run_id

\* snapshot order: priority desc, then enqueued_at asc, then run_id asc
Before(a, b) ==
    \/ a.priority > b.priority
    \/ a.priority = b.priority /\ a.enqueued_at < b.enqueued_at
    \/ a.priority = b.priority /\ a.enqueued_at = b.enqueued_at /\ a.run_id < b.run_id

RECURSIVE SortEntries(_)
SortEntries(S) ==
    IF S = {} THEN <<>>
    ELSE LET m == CHOOSE x \in S : \A y \in S \ {x} : Before(x, y)
         IN <<m>> \o SortEntries(S \ {m})

\* GET /scheduler/queue
Snapshot == SortEntries(queue)

TenantActive(t) == Cardinality({a \in active : TenantOf(a) = t})

\* variant: only the per-tenant cap is checked
EligibleTenantOnly(e) == TenantActive(e.tenant_id) < policy.tenant_max_active

\* variant: only the global cap is checked
EligibleGlobalOnly(e) == Cardinality(active) < policy.global_concurrency

\* variant: the global cap is compared one off
EligibleGlobalOffByOne(e) ==
    /\ TenantActive(e.tenant_id) < policy.tenant_max_active
    /\ Cardinality(active) <= policy.global_concurrency

\* variant: the caps read at start-up are used, not the policy in force
EligibleUnderDefaults(e) ==
    /\ TenantActive(e.tenant_id) < SCHED_TENANT_MAX_ACTIVE
    /\ Cardinality(active) < SCHED_CONCURRENCY

\* the per-tenant cap and the global cap both leave room for the entry
Eligible(e) ==
    /\ TenantActive(e.tenant_id) < policy.tenant_max_active
    /\ Cardinality(active) < policy.global_concurrency

\* variant: the quota check is forgotten, every queued entry counts as eligible
EligibleIndexesAll == 1..Len(Snapshot)

EligibleIndexes == {k \in 1..Len(Snapshot) : Eligible(Snapshot[k])}

\* variant: the scan keeps the last eligible entry it meets
LastEligible == Snapshot[CHOOSE k \in EligibleIndexes : \A j \in EligibleIndexes : k >= j]

\* the first eligible entry in snapshot order
FirstEligible == Snapshot[CHOOSE k \in EligibleIndexes : \A j \in EligibleIndexes : k <= j]

\* variant: the lease is not entered in the active set
MarkActiveForgotten(a, r) == a

\* lease: the run is marked active
MarkActive(a, r) == a \cup {r}

\* variant: the slot of a run that did not end completed is kept
ReleaseSlotOnSuccess(a, r) == IF run_status[r] = "completed" THEN a \ {r} ELSE a

\* release of the run's tenant/global capacity slot
ReleaseSlot(a, r) == a \ {r}

\* variant: only the active set is consulted
AlreadyPresentActiveOnly(r) == r \in active

\* enqueue of a run that is queued or active is a no-op
AlreadyPresent(r) == Queued(r) \/ r \in active

\* variant: one entry too many is let in
QueueFullLate == Cardinality(queue) > policy.queue_max

\* backpressure
QueueFull == Cardinality(queue) >= policy.queue_max

----------------------------------------------------------------------------
Init ==
    /\ history = [r \in Runs |-> {}]
    /\ run_status = [r \in Runs |-> "pending"]
    /\ qa_loops = [r \in Runs |-> 0]
    /\ cur = Idle
    /\ queue = {}
    /\ active = {}
    /\ policy = [global_concurrency |-> SCHED_CONCURRENCY,
                 tenant_max_active |-> SCHED_TENANT_MAX_ACTIVE,
                 queue_max |-> SCHED_QUEUE_MAX, enabled |-> TRUE]
    /\ stats = [leases |-> 0, skipped_due_to_quota |-> 0, completed |-> 0]
    /\ resp = "ok"
    /\ leased = 0

----------------------------------------------------------------------------
(* Engine operations *)

\* variant: a repeated start is taken on a paused run as well
StartAcceptsPaused(st) == st \in {"pending", "paused", "failed"}

StartAccepts(st) == st \in {"pending", "failed"}

\* variant: a failed run is refused by resume
ResumeAcceptsNotFailed(st) == st \in {"pending", "paused"}

\* variant: resume is taken whatever the run's status
ResumeAcceptsAny(st) == st \in Statuses

ResumeAccepts(st) == st \in {"pending", "paused", "failed"}

\* POST /runs/{id}/graph/start
Start(r, c) ==
    /\ cur.phase = "idle"
    /\ FitsRows(history[r], c)
    /\ IF StartAccepts(run_status[r])
       THEN /\ cur' = Call("start", r, c)
            /\ run_status' = [run_status EXCEPT ![r] = "running"]
            /\ UNCHANGED resp
       ELSE /\ resp' = "InvalidStateError"
            /\ UNCHANGED <<cur, run_status>>
    /\ leased' = 0
    /\ UNCHANGED <<history, qa_loops, queue, active, policy, stats>>

\* POST /runs/{id}/graph/resume
Resume(r, c) ==
    /\ cur.phase = "idle"
    /\ FitsRows(history[r], c)
    /\ IF ResumeAccepts(run_status[r])
       THEN /\ cur' = Call("resume", r, c)
            /\ run_status' = [run_status EXCEPT ![r] = "running"]
            /\ UNCHANGED resp
       ELSE /\ resp' = "InvalidStateError"
            /\ UNCHANGED <<cur, run_status>>
    /\ leased' = 0
    /\ UNCHANGED <<history, qa_loops, queue, active, policy, stats>>

\* one attempt of the next unfinished step of the run the call in progress advances:
\* execute, record the attempt, recompute the run status, then retry / advance / stop
Attempt ==
    /\ cur.phase = "exec"
    /\ NextStep(history[cur.run]) <= NSteps
    /\ LET c == cur
           r == cur.run
           i == NextStep(history[r])
           n == NextAttemptNo(history[r], i)
           st == AttemptStatus(c, i, qa_loops[r])
           row == [step_index |-> i, step_name |-> STEPS[i], attempt |-> n,
                   status |-> st, error |-> AttemptError(c, i, qa_loops[r])]
           tries == c.tries + 1
           ns == StatusAfter(c, i, st, tries)
       IN /\ history' = [history EXCEPT ![r] = Record(@, row)]
          /\ qa_loops' = [qa_loops EXCEPT ![r] = IF LoopsBack(c, i, @) THEN @ + 1 ELSE @]
          /\ run_status' = [run_status EXCEPT ![r] = ns]
          /\ cur' = IF ns = "running"
                    THEN IF st = "ok"
                         THEN [c EXCEPT !.tries = 0, !.backoff = <<>>]
                         ELSE [c EXCEPT !.tries = tries,
                                        !.backoff = Append(@, BackoffDelay(tries))]
                    ELSE Finish([c EXCEPT !.tries = IF st = "ok" THEN 0 ELSE tries])
          /\ resp' = IF RecordConflicts(history[r], row) THEN "ConflictError"
                     ELSE IF ns = "running" \/ c.op = "step" THEN resp
                     ELSE "ok"
    /\ UNCHANGED <<queue, active, policy, stats, leased>>

----------------------------------------------------------------------------
(* Scheduler operations *)

\* the timestamps now() may return at an enqueue: time never runs backwards
Now == {t \in Times : \A e \in queue : e.enqueued_at <= t}

\* POST /scheduler/enqueue
Enqueue(r, p, t) ==
    /\ cur.phase = "idle"
    /\ IF AlreadyPresent(r)
       THEN /\ resp' = "ok"
            /\ UNCHANGED queue
       ELSE IF QueueFull
       THEN /\ resp' = "CapacityError"
            /\ UNCHANGED queue
       ELSE /\ queue' = queue \cup {[run_id |-> r, tenant_id |-> TenantOf(r),
                                      priority |-> p, enqueued_at |-> t]}
            /\ resp' = "ok"
    /\ leased' = 0
    /\ UNCHANGED <<history, run_status, qa_loops, cur, active, policy, stats>>

\* POST /scheduler/step with the scheduler disabled or nothing queued: leased null
StepIdle ==
    /\ cur.phase = "idle"
    /\ ~policy.enabled \/ queue = {}
    /\ resp' = "ok"
    /\ leased' = 0
    /\ UNCHANGED <<history, run_status, qa_loops, cur, queue, active, policy, stats>>

\* POST /scheduler/step with entries queued and none eligible
StepSkip ==
    /\ cur.phase = "idle"
    /\ policy.enabled /\ queue # {}
    /\ EligibleIndexes = {}
    /\ stats.skipped_due_to_quota < MaxSkips
    /\ stats' = [stats EXCEPT !.skipped_due_to_quota = @ + 1]
    /\ resp' = "ok"
    /\ leased' = 0
    /\ UNCHANGED <<history, run_status, qa_loops, cur, queue, active, policy>>

\* variant: the leased entry stays in the queue
StepLeaseKeepsEntry ==
    /\ cur.phase = "idle"
    /\ policy.enabled /\ queue # {}
    /\ EligibleIndexes # {}
    /\ stats.leases < MaxLeases
    /\ LET e == FirstEligible
           r == e.run_id
       IN \E c \in LeaseControls(r) :
          /\ FitsRows(history[r], c)
          /\ queue' = queue
          /\ active' = MarkActive(active, r)
          /\ stats' = [stats EXCEPT !.leases = @ + 1]
          /\ leased' = r
          /\ IF StartAccepts(run_status[r])
             THEN /\ cur' = Call("step", r, c)
                  /\ run_status' = [run_status EXCEPT ![r] = "running"]
             ELSE /\ cur' = [Call("step", r, DefaultControls) EXCEPT !.phase = "rejected"]
                  /\ UNCHANGED run_status
    /\ UNCHANGED <<history, qa_loops, policy, resp>>

\* variant: the lease takes every entry of the leased run's tenant off the queue
StepLeaseDropsTenant ==
    /\ cur.phase = "idle"
    /\ policy.enabled /\ queue # {}
    /\ EligibleIndexes # {}
    /\ stats.leases < MaxLeases
    /\ LET e == FirstEligible
           r == e.run_id
       IN \E c \in LeaseControls(r) :
          /\ FitsRows(history[r], c)
          /\ queue' = {x \in queue : x.tenant_id # e.tenant_id}
          /\ active' = MarkActive(active, r)
          /\ stats' = [stats EXCEPT !.leases = @ + 1]
          /\ leased' = r
          /\ IF StartAccepts(run_status[r])
             THEN /\ cur' = Call("step", r, c)
                  /\ run_status' = [run_status EXCEPT ![r] = "running"]
             ELSE /\ cur' = [Call("step", r, DefaultControls) EXCEPT !.phase = "rejected"]
                  /\ UNCHANGED run_status
    /\ UNCHANGED <<history, qa_loops, policy, resp>>

\* POST /scheduler/step, first half: lease the first eligible entry and start its run
StepLease ==
    /\ cur.phase = "idle"
    /\ policy.enabled /\ queue # {}
    /\ EligibleIndexes # {}
    /\ stats.leases < MaxLeases
    /\ LET e == FirstEligible
           r == e.run_id
       IN \E c \in LeaseControls(r) :
          /\ FitsRows(history[r], c)
          /\ queue' = queue \ {e}
          /\ active' = MarkActive(active, r)
          /\ stats' = [stats EXCEPT !.leases = @ + 1]
          /\ leased' = r
          /\ IF StartAccepts(run_status[r])
             THEN /\ cur' = Call("step", r, c)
                  /\ run_status' = [run_status EXCEPT ![r] = "running"]
             ELSE /\ cur' = [Call("step", r, DefaultControls) EXCEPT !.phase = "rejected"]
                  /\ UNCHANGED run_status
    /\ UNCHANGED <<history, qa_loops, policy, resp>>

\* variant: every release counts as a completion
ReachedTerminalAnyRelease(c, st) == TRUE

\* the run reached a terminal state during the lease
ReachedTerminal(c, st) == c.phase = "release" /\ st \in {"completed", "failed"}

\* POST /scheduler/step, second half: release the capacity slot, count the completion
Release ==
    /\ cur.op = "step"
    /\ cur.phase \in {"release", "rejected"}
    /\ active' = ReleaseSlot(active, cur.run)
    /\ stats' = [stats EXCEPT !.completed =
                    IF ReachedTerminal(cur, run_status[cur.run]) THEN @ + 1 ELSE @]
    /\ resp' = IF cur.phase = "rejected" THEN "InvalidStateError" ELSE "ok"
    /\ cur' = Idle
    /\ UNCHANGED <<history, run_status, qa_loops, queue, policy, leased>>

\* variant: a policy update reinitialises the counters too
PolicySetResetsStats(p) ==
    /\ cur.phase = "idle"
    /\ policy' = p
    /\ stats' = [leases |-> 0, skipped_due_to_quota |-> 0, completed |-> 0]
    /\ resp' = "ok"
    /\ leased' = 0
    /\ UNCHANGED <<history, run_status, qa_loops, cur, queue, active>>

\* PATCH /scheduler/policy
PolicySet(p) ==
    /\ cur.phase = "idle"
    /\ policy' = p
    /\ resp' = "ok"
    /\ leased' = 0
    /\ UNCHANGED <<history, run_status, qa_loops, cur, queue, active, stats>>

----------------------------------------------------------------------------
(* Specifications *)

\* the execution engine driven by start / resume calls
Next ==
    \/ \E r \in DirectRuns, c \in StartControls : Start(r, c)
    \/ \E r \in DirectRuns, c \in ResumeControls : Resume(r, c)
    \/ Attempt

Spec == Init /\ [][Next]_vars

\* the scheduler leasing runs into the engine
SchedNext ==
    \/ \E r \in Runs, p \in Priorities, t \in Now : Enqueue(r, p, t)
    \/ StepIdle
    \/ StepSkip
    \/ StepLease
    \/ Attempt
    \/ Release
    \/ \E p \in PolicyChoices : PolicySet(p)

SchedSpec == Init /\ [][SchedNext]_vars

\* the rows handed to record() when the Attempt Store is driven on its own
StoreRows ==
    {[step_index |-> i, step_name |-> STEPS[i], attempt |-> n, status |-> st,
      error |-> IF st = "ok" THEN "null" ELSE "injected_failure"] :
        i \in 1..MaxStoreStep, n \in 1..MaxStoreAttempt, st \in {"ok", "error"}}

\* record(run_id, step_index, step_name, attempt, status, ...)
RecordCall(r, row) ==
    /\ cur.phase = "idle"
    /\ history' = [history EXCEPT ![r] = Record(@, row)]
    /\ resp' = IF RecordConflicts(history[r], row) THEN "ConflictError" ELSE "ok"
    /\ UNCHANGED <<run_status, qa_loops, cur, queue, active, policy, stats, leased>>

StoreNext == \E row \in StoreRows : RecordCall(1, row)

\* the Attempt Store driven directly through record()
StoreSpec == Init /\ [][StoreNext]_vars

\* variant: the attempt rows are held in memory and lost with the process
RestartLosesAttempts ==
    /\ cur.phase = "idle"
    /\ history' = [r \in Runs |-> {}]
    /\ queue' = {}
    /\ active' = {}
    /\ policy' = [global_concurrency |-> SCHED_CONCURRENCY,
                  tenant_max_active |-> SCHED_TENANT_MAX_ACTIVE,
                  queue_max |-> SCHED_QUEUE_MAX, enabled |-> TRUE]
    /\ stats' = [leases |-> 0, skipped_due_to_quota |-> 0, completed |-> 0]
    /\ resp' = "ok"
    /\ leased' = 0
    /\ UNCHANGED <<run_status, qa_loops, cur>>

\* process restart between calls: the scheduler's in-memory queue, active set, policy
\* and stats start afresh; runs and attempt history are durable
Restart ==
    /\ cur.phase = "idle"
    /\ queue' = {}
    /\ active' = {}
    /\ policy' = [global_concurrency |-> SCHED_CONCURRENCY,
                  tenant_max_active |-> SCHED_TENANT_MAX_ACTIVE,
                  queue_max |-> SCHED_QUEUE_MAX, enabled |-> TRUE]
    /\ stats' = [leases |-> 0, skipped_due_to_quota |-> 0, completed |-> 0]
    /\ resp' = "ok"
    /\ leased' = 0
    /\ UNCHANGED <<history, run_status, qa_loops, cur>>

\* request bodies used next to restarts: stop_after and a research step that fails
RestartControls ==
    {c \in StartControls : ~c.force_qa_fail /\ c.inj_step \in {NoStep, "research"}}

\* runs handed to the scheduler next to restarts
RestartRuns == {1, 3}

\* start / resume on run 1, step() on runs 1 and 3, restarts
RestartNext ==
    \/ \E c \in RestartControls : Start(1, c)
    \/ \E c \in RestartControls \cap ResumeControls : Resume(1, c)
    \/ Attempt
    \/ \E r \in RestartRuns : Enqueue(r, 0, 0)
    \/ StepLease
    \/ Release
    \/ Restart

RestartSpec == Init /\ [][RestartNext]_vars

\* explicit test/administrative reset of the scheduler counters
ResetStats ==
    /\ cur.phase = "idle"
    /\ stats' = [leases |-> 0, skipped_due_to_quota |-> 0, completed |-> 0]
    /\ resp' = "ok"
    /\ leased' = 0
    /\ UNCHANGED <<history, run_status, qa_loops, cur, queue, active, policy>>

\* policies with the default queue capacity
StatsPolicies == {p \in PolicyChoices : p.queue_max = SCHED_QUEUE_MAX}

\* the scheduler with its counters reset now and then
StatsNext ==
    \/ \E r \in Runs : Enqueue(r, 0, 0)
    \/ StepIdle
    \/ StepSkip
    \/ StepLease
    \/ Attempt
    \/ Release
    \/ \E p \in StatsPolicies : PolicySet(p)
    \/ ResetStats

StatsSpec == Init /\ [][StatsNext]_vars

\* timestamps of a clock that has moved on since the last queued entry was enqueued
LiveNow == {t \in Times : \A e \in queue : e.enqueued_at < t}

\* the scheduler under the default policy with a caller that keeps calling step()
LiveNext ==
    \/ \E r \in Runs, p \in Priorities, t \in LiveNow : Enqueue(r, p, t)
    \/ StepLease
    \/ Attempt
    \/ Release
    \/ ResetStats

\* the caller repeats step() and every call runs to completion before it returns
LiveSpec ==
    /\ Init /\ [][LiveNext]_vars
    /\ WF_vars(StepLease) /\ WF_vars(Attempt) /\ WF_vars(Release)

\* request bodies and policies of the whole control surface used together
PauseControls == [DefaultControls EXCEPT !.stop_after = "research"]

SurfacePolicies == {p \in PolicyChoices : p.queue_max = 100 /\ p.enabled}

\* start / resume on run 1 next to the scheduler working on every run
SurfaceNext ==
    \/ \E c \in {DefaultControls, PauseControls} : Start(1, c)
    \/ Resume(1, DefaultControls)
    \/ Attempt
    \/ \E r \in Runs : Enqueue(r, 0, 0)
    \/ StepIdle
    \/ StepSkip
    \/ StepLease
    \/ Release
    \/ \E p \in SurfacePolicies : PolicySet(p)

SurfaceSpec == Init /\ [][SurfaceNext]_vars

----------------------------------------------------------------------------
(* Properties of the execution engine, checked under Spec *)

AttemptNos(h, i) == {x.attempt : x \in RowsOf(h, i)}

OkRows(h, i) == {x \in RowsOf(h, i) : x.status = "ok"}

ErrorRows(h, i) == {x \in RowsOf(h, i) : x.status = "error"}

\* start and resume calls on run 1 next to step() calls that lease run 3
TermNext ==
    \/ \E c \in StartControls : Start(1, c)
    \/ \E c \in ResumeControls : Resume(1, c)
    \/ Attempt
    \/ Enqueue(3, 0, 0)
    \/ StepLease
    \/ Release

\* a call that was taken runs on: the engine makes its next attempt, step() its release
TermSpec == Init /\ [][TermNext]_vars /\ WF_vars(Attempt) /\ WF_vars(Release)

\* C1: for every run and step index the attempt numbers in the history are exactly
\* 1..n, no gaps and no duplicates.
C1_ContiguousAttempts ==
    \A r \in Runs : \A i \in StepIndexes :
        /\ AttemptNos(history[r], i) = 1..Cardinality(RowsOf(history[r], i))
        /\ \A x, y \in RowsOf(history[r], i) : x.attempt = y.attempt => x = y

\* a step retried after an exhausted call (attempts 1..4) next to a QA step with loop rows
C1_Witness ==
    \E r \in Runs :
        /\ Cardinality(RowsOf(history[r], 3)) = 4
        /\ Cardinality(RowsOf(history[r], 6)) >= 2

\* C2: for every run and step index at most one StepAttempt has status ok.
C2_AtMostOneOk ==
    \A r \in Runs : \A i \in StepIndexes : Cardinality(OkRows(history[r], i)) <= 1

\* a completed run whose QA step looped (error rows, then its one ok row) after
\* retries of an earlier step
C2_Witness ==
    \E r \in Runs :
        /\ run_status[r] = "completed"
        /\ ErrorRows(history[r], 6) # {} /\ OkRows(history[r], 6) # {}
        /\ ErrorRows(history[r], 2) # {}

\* C3: the attempt that turns a run failed is the third attempt of its step in the call
\* (retry budget spent, no fourth attempt follows): the step's rows are all errors,
\* numbered 1..n with n a multiple of three (three for a step never exhausted before),
\* and no later step has any row.
C3_RetryExhaust ==
    [][\A r \in Runs :
        (run_status[r] # "failed" /\ run_status'[r] = "failed") =>
            LET i == NextStep(history'[r])
                n == Cardinality(RowsOf(history'[r], i))
            IN /\ cur.run = r /\ cur.tries = MAX_ATTEMPTS - 1
               /\ cur'.phase # "exec"
               /\ n >= MAX_ATTEMPTS /\ n % MAX_ATTEMPTS = 0
               /\ Cardinality(RowsOf(history[r], i)) = n - 1
               /\ OkRows(history'[r], i) = {}
               /\ AttemptNos(history'[r], i) = 1..n
               /\ \A j \in (i + 1)..NSteps : RowsOf(history'[r], j) = {}]_vars

\* a failed run whose research step holds exactly the error attempts 1, 2, 3
C3_Witness ==
    \E r \in Runs :
        /\ run_status[r] = "failed"
        /\ AttemptNos(history[r], 3) = {1, 2, 3}
        /\ OkRows(history[r], 3) = {}
        /\ RowsOf(history[r], 4) = {}

\* the row an Attempt step adds to the history of the run being advanced
NewRows(r) == history'[r] \ history[r]

C5_TerminalForever ==
    [][\A r \in Runs :
        run_status[r] \in {"completed", "failed"} =>
            (run_status'[r] = run_status[r] /\ history'[r] = history[r])]_vars

\* C5 (amended): completed is terminal: start and resume against a completed run are
\* answered InvalidStateError and no step ever changes its status, history or loop
\* counter; a failed run is not terminal: resume against it is accepted.
C5_CompletedTerminal ==
    [][\A r \in Runs :
        /\ run_status[r] = "completed" =>
              /\ run_status'[r] = "completed"
              /\ history'[r] = history[r]
              /\ qa_loops'[r] = qa_loops[r]
              /\ \A c \in StartControls :
                    (Start(r, c) \/ Resume(r, c)) => (resp' = "InvalidStateError" /\ cur' = cur)
        /\ run_status[r] = "failed" =>
              \A c \in ResumeControls :
                    Resume(r, c) => (run_status'[r] = "running" /\ cur'.run = r)]_vars

\* every directly driven run is completed and the last request was rejected
C5_Witness ==
    /\ \A r \in DirectRuns : run_status[r] = "completed"
    /\ resp = "InvalidStateError"
    /\ cur.phase = "idle"

----------------------------------------------------------------------------
(* Properties of the scheduler, checked under SchedSpec *)

EntriesOf(q, r) == {e \in q : e.run_id = r}

\* C6: an enqueue of a run id that is queued or active answers ok and leaves the queue
\* as it was, and no step ever leaves two entries of one run id in the queue.
C6_EnqueueIdempotent ==
    [][/\ \A r \in Runs : Cardinality(EntriesOf(queue', r)) <= 1
       /\ \A r \in Runs, p \in Priorities, t \in Times :
             (Enqueue(r, p, t) /\ (EntriesOf(queue, r) # {} \/ r \in active))
                 => (queue' = queue /\ resp' = "ok")]_vars

\* a queued run whose entry a second enqueue could still change (other priority, later time)
C6_Witness ==
    \E e \in queue :
        /\ e.priority = 0 /\ e.enqueued_at = 0
        /\ Cardinality(queue) = 1
        /\ policy.queue_max > 1
        /\ cur.phase = "idle"

\* C7: an enqueue of a new run id into a queue that holds queue_max entries answers
\* CapacityError and changes nothing; an enqueue of a run id that is present answers
\* ok and changes nothing even then.
C7_Backpressure ==
    [][\A r \in Runs, p \in Priorities, t \in Times :
         (Enqueue(r, p, t) /\ Cardinality(queue) >= policy.queue_max) =>
            /\ UNCHANGED <<queue, active, stats, policy, history, run_status>>
            /\ resp' = IF EntriesOf(queue, r) # {} \/ r \in active
                       THEN "ok" ELSE "CapacityError"]_vars

\* the queue is at its capacity and the last enqueue was refused
C7_Witness ==
    /\ resp = "CapacityError"
    /\ Cardinality(queue) = policy.queue_max
    /\ cur.phase = "idle"

\* C8: snapshot() lists every queued entry exactly once, ordered by priority desc,
\* then enqueued_at asc, then run_id asc.
C8_SnapshotSorted ==
    /\ Len(Snapshot) = Cardinality(queue)
    /\ {Snapshot[k] : k \in 1..Len(Snapshot)} = queue
    /\ \A j, k \in 1..Len(Snapshot) :
          j < k =>
            LET a == Snapshot[j]
                b == Snapshot[k]
            IN IF a.priority # b.priority THEN a.priority > b.priority
               ELSE IF a.enqueued_at # b.enqueued_at THEN a.enqueued_at < b.enqueued_at
               ELSE a.run_id < b.run_id

\* three entries: two tie on priority and time, the third was enqueued earlier at a
\* lower priority
C8_Witness ==
    /\ Cardinality(queue) = 3
    /\ \E a, b, c \in queue :
          /\ a # b /\ a.priority = 1 /\ b.priority = 1 /\ a.enqueued_at = b.enqueued_at
          /\ c.priority = 0 /\ c.enqueued_at < a.enqueued_at

\* C9: the number of active runs never exceeds global_concurrency (there are no threads:
\* the policy cannot change between a lease and its release, so the limit in force at
\* the lease is the current one).
C9_GlobalCap == Cardinality(active) <= policy.global_concurrency \/ active = {}

\* a run is leased with the global limit exactly reached
C9_Witness ==
    /\ active # {}
    /\ Cardinality(active) = policy.global_concurrency
    /\ queue # {}

\* C10: for every tenant the number of its active runs never exceeds tenant_max_active.
C10_TenantCap ==
    \A r \in Runs :
        TenantActive(TenantOf(r)) > 0 => TenantActive(TenantOf(r)) <= policy.tenant_max_active

\* a tenant at its cap with another of its runs waiting in the queue
C10_Witness ==
    \E r \in active : \E e \in queue :
        /\ e.tenant_id = TenantOf(r)
        /\ TenantActive(TenantOf(r)) = policy.tenant_max_active

\* entry b comes before entry e in the order of snapshot()
Precedes(b, e) ==
    IF b.priority # e.priority THEN b.priority > e.priority
    ELSE IF b.enqueued_at # e.enqueued_at THEN b.enqueued_at < e.enqueued_at
    ELSE b.run_id < e.run_id

\* the caps leave room for entry e in the state before the step
HasRoom(e) ==
    /\ Cardinality({a \in active : TenantOf(a) = e.tenant_id}) < policy.tenant_max_active
    /\ Cardinality(active) + 1 <= policy.global_concurrency

NoneHasRoom == queue # {} /\ \A e \in queue : ~HasRoom(e)

\* C12: with the scheduler enabled, entries queued and none eligible, a step() leases
\* nothing: it answers leased null, adds exactly one to skipped_due_to_quota and
\* leaves the queue, the active set, the leases and completed counters and every
\* run's history and status as they were; the skip counter moves in no other way.
C12_SkipFrame ==
    [][/\ (cur.phase = "idle" /\ policy.enabled /\ NoneHasRoom
           /\ (StepIdle \/ StepSkip \/ StepLease))
          => /\ stats' = [stats EXCEPT !.skipped_due_to_quota = @ + 1]
             /\ leased' = 0
             /\ UNCHANGED <<queue, active, history, run_status, qa_loops, policy, cur>>
       /\ stats'.skipped_due_to_quota # stats.skipped_due_to_quota
          => (cur.phase = "idle" /\ policy.enabled /\ NoneHasRoom
              /\ stats'.leases = stats.leases /\ stats'.completed = stats.completed)]_vars

\* a skip was counted after earlier leases, with entries still queued and no room
C12_Witness ==
    /\ stats.skipped_due_to_quota = 1 /\ stats.leases >= 1 /\ stats.completed >= 1
    /\ policy.enabled /\ NoneHasRoom
    /\ leased = 0 /\ cur.phase = "idle"
    /\ \E r \in Runs : history[r] # {}

----------------------------------------------------------------------------
(* Properties of the run state machine, checked under Spec *)

\* C15: a run whose status is completed has an ok attempt of the terminal step
\* (release), and of every step before it.
C15_CompletedHasRelease ==
    \A r \in Runs :
        run_status[r] = "completed" => \A i \in StepIndexes : HasOk(history[r], i)

\* a completed run whose QA step has loop iterations that did not pass before the
\* accepted one, while the other run is paused short of release
C15_Witness ==
    /\ run_status[1] = "completed"
    /\ ErrorRows(history[1], 6) # {}
    /\ run_status[2] = "paused" /\ ~HasOk(history[2], NSteps)
    /\ cur.phase = "idle"

\* C16: a run whose status is failed has an unfinished step (the lowest without an ok
\* attempt) that holds no ok attempt and at least the error attempts 1, 2, 3, every
\* error attempt of the run carrying an error detail.
C16_FailedHasExhaustedStep ==
    \A r \in Runs :
        run_status[r] = "failed" =>
            /\ NextStep(history[r]) <= NSteps
            /\ LET i == NextStep(history[r])
               IN /\ OkRows(history[r], i) = {}
                  /\ 1..MAX_ATTEMPTS \subseteq {x.attempt : x \in ErrorRows(history[r], i)}
                  /\ Cardinality(ErrorRows(history[r], i)) >= MAX_ATTEMPTS
            /\ \A x \in history[r] : (x.status = "error") = (x.error # "null")

\* a run failed at its QA step: three verification failures recorded with their
\* detail, after an earlier step was retried and succeeded
C16_Witness ==
    \E r \in Runs :
        /\ run_status[r] = "failed"
        /\ {x.attempt : x \in ErrorRows(history[r], 6)} = 1..MAX_ATTEMPTS
        /\ \A x \in RowsOf(history[r], 6) : x.error = "qa_failed"
        /\ \E x \in history[r] : x.error = "injected_failure"

\* C17: a paused run leaves paused only by a resume call on it: any other step (a
\* repeated start, enqueue, policy_set, step() calls and the attempts they make)
\* leaves its status, its history and its loop counter as they were, and a repeated
\* start on it is answered InvalidStateError.
C17_PausedUntilResume ==
    [][\A r \in Runs :
        run_status[r] = "paused" =>
            /\ (\E c \in ResumeControls : Resume(r, c))
                  \/ (run_status'[r] = "paused" /\ history'[r] = history[r]
                      /\ qa_loops'[r] = qa_loops[r])
            /\ \A c \in StartControls : Start(r, c) => resp' = "InvalidStateError"
            /\ run_status'[r] \in {"paused", "running"}]_vars

\* run 1 is paused after research; since then step() has leased and finished another
\* run, and a repeated start was refused
C17_Witness ==
    /\ run_status[1] = "paused" /\ NextStep(history[1]) = 4
    /\ \E r \in Runs \ {1} : run_status[r] = "completed"
    /\ stats.completed >= 1
    /\ resp = "InvalidStateError" /\ cur.phase = "idle"

\* C18: every attempt a start or resume call records is an attempt of the lowest step
\* that had no ok attempt, never of a step that has one; and a resume of a paused run
\* finds the steps up to the pause point ok, nothing recorded beyond it, and so
\* continues at the step right after it.
C18_ResumesAtLowestUnfinished ==
    [][\A r \in Runs :
        /\ \A x \in history'[r] \ history[r] :
              /\ \A y \in history[r] : y.step_index = x.step_index => y.status # "ok"
              /\ \A j \in 1..(x.step_index - 1) :
                    \E y \in history[r] : y.step_index = j /\ y.status = "ok"
        /\ (run_status[r] = "paused" /\ \E c \in ResumeControls : Resume(r, c))
              => \E k \in 1..(NSteps - 1) :
                    /\ \A j \in 1..k : \E y \in history[r] : y.step_index = j /\ y.status = "ok"
                    /\ \A y \in history[r] : y.step_index <= k
                    /\ cur'.run = r /\ cur'.op = "resume"
                    /\ NextStep(history'[r]) = k + 1]_vars

\* a resume in progress on a run paused after research, design having been retried
\* before the pause: it went on from cto_plan and is now retrying qa
C18_Witness ==
    /\ cur.op = "resume" /\ cur.phase = "exec"
    /\ ErrorRows(history[cur.run], 2) # {}
    /\ Cardinality(RowsOf(history[cur.run], 3)) = 1
    /\ ErrorRows(history[cur.run], 6) # {}

\* the rows numbered n-k+1 .. n of step i are error attempts with their detail
LastAreErrors(h, i, k) ==
    LET n == Cardinality(RowsOf(h, i))
    IN /\ k <= n
       /\ \A m \in (n - k + 1)..n :
             \E x \in RowsOf(h, i) : x.attempt = m /\ x.status = "error" /\ x.error # "null"

----------------------------------------------------------------------------
(* Properties of the Attempt Store, checked under StoreSpec *)

\* C20: record() called with a (run_id, step_index, attempt) triple that is already
\* stored answers ConflictError and leaves the history, the existing row included, as
\* it was.
C20_DuplicateKeyConflict ==
    [][\A row \in StoreRows :
        (RecordCall(1, row)
         /\ \E y \in history[1] : y.step_index = row.step_index /\ y.attempt = row.attempt)
            => (resp' = "ConflictError" /\ history' = history)]_vars

\* a record() was refused while attempt 1 of step 1 is stored as an error: a second
\* record() of that key with status ok would have changed it
C20_Witness ==
    /\ resp = "ConflictError"
    /\ \E y \in history[1] : y.step_index = 1 /\ y.attempt = 1 /\ y.status = "error"
    /\ Cardinality(history[1]) = 1

----------------------------------------------------------------------------
(* Properties checked under RestartSpec *)

\* C21: every attempt the engine makes is recorded under a key that was not in the
\* history (the history grows by exactly one row) and no call is answered
\* ConflictError, across start, resume, enqueue, step() and process restarts.
C21_NoConflictInOperation ==
    [][/\ (cur.phase = "exec" /\ cur' # cur)
          => /\ Cardinality(history'[cur.run]) = Cardinality(history[cur.run]) + 1
             /\ \A x \in history'[cur.run] \ history[cur.run] :
                   ~\E y \in history[cur.run] :
                       y.step_index = x.step_index /\ y.attempt = x.attempt
       /\ resp' # "ConflictError"]_vars

\* after a restart (no lease counted, yet run 3 was advanced by a step() before it), a
\* resume of run 1 has got its research step, exhausted by an earlier call, to succeed
C21_Witness ==
    /\ stats.leases = 0 /\ history[3] # {}
    /\ cur.op = "resume" /\ cur.run = 1 /\ cur.phase = "exec"
    /\ Cardinality(ErrorRows(history[1], 3)) = MAX_ATTEMPTS /\ HasOk(history[1], 3)

----------------------------------------------------------------------------
(* Properties of the scheduler counters, checked under StatsSpec *)

\* C22: a step in which leases, skipped_due_to_quota or completed gets smaller is the
\* explicit reset; enqueue, step() and policy_set never lower a counter.
C22_StatsMonotone ==
    [][\/ /\ stats'.leases >= stats.leases
          /\ stats'.skipped_due_to_quota >= stats.skipped_due_to_quota
          /\ stats'.completed >= stats.completed
       \/ /\ cur.phase = "idle" /\ cur' = cur
          /\ UNCHANGED <<queue, active, policy, history, run_status>>
          /\ stats'.leases = 0 /\ stats'.skipped_due_to_quota = 0
          /\ stats'.completed = 0]_vars

\* all three counters have counted again since a reset: two runs are finished, more
\* than the one completion now counted
C22_Witness ==
    /\ stats.leases = 1 /\ stats.completed = 1 /\ stats.skipped_due_to_quota = 1
    /\ Cardinality({r \in Runs : run_status[r] \in {"completed", "failed"}}) >= 2

----------------------------------------------------------------------------
(* Further properties of the scheduler, checked under SchedSpec *)

\* the queued entries that have room and are preceded by no entry that has room
FirstWithRoom ==
    {e \in queue : HasRoom(e) /\ \A b \in queue : Precedes(b, e) => ~HasRoom(b)}

\* C23: the outcome of a step() is a function of the queue contents, the policy and the
\* active set alone: queued entries differ in their run id, so the snapshot order has no
\* ties and at most one entry is the first with room; an enabled step() leases exactly
\* that entry and leaves the other entries queued, and otherwise leases nothing and
\* leaves the queue as it was.
C23_StepDeterministic ==
    [][(cur.phase = "idle" /\ (StepIdle \/ StepSkip \/ StepLease))
        => /\ \A a, b \in queue : a # b => (a.run_id # b.run_id /\ Precedes(a, b) # Precedes(b, a))
           /\ Cardinality(FirstWithRoom) <= 1
           /\ IF policy.enabled /\ FirstWithRoom # {}
              THEN \E e \in FirstWithRoom : leased' = e.run_id /\ queue' = queue \ {e}
              ELSE leased' = 0 /\ queue' = queue]_vars

\* run 2 was leased ahead of run 3, which ties with it on priority and time, and ahead
\* of run 1, whose priority is lower
C23_Witness ==
    /\ cur.op = "step" /\ cur.run = 2 /\ leased = 2 /\ active = {2}
    /\ \E e \in queue : e.run_id = 3 /\ e.priority = 1 /\ e.enqueued_at = 0
    /\ \E e \in queue : e.run_id = 1 /\ e.priority = 0

----------------------------------------------------------------------------
(* Liveness of the scheduler, checked under LiveSpec (scheduler enabled,            *)
(* global_concurrency and tenant_max_active at their defaults, both at least 1)     *)

\* C24 as stated: under repeated step() calls every queued run is eventually leased
\* (as long as the model's cap of the leases counter is not reached).
C24_NoStarvation ==
    \A r \in Runs : Queued(r) ~> (r \in active \/ stats.leases = MaxLeases)

\* what holds of the scheduler instead: once no further entry is enqueued, repeated
\* step() calls drain the queue for good (as long as the model's cap of the leases
\* counter is not reached).
DrainsWithoutEnqueue ==
    <>[][queue' \subseteq queue]_vars => <>[](queue = {} \/ stats.leases = MaxLeases)

----------------------------------------------------------------------------
(* Fairness across tenants, checked under SchedSpec *)

\* C25 as stated: of two successive step() calls that both lease (no other call in
\* between: the first one's leased id is still the last response), the second does not
\* lease the same tenant again while an entry of another tenant with the same priority
\* as the one it takes is waiting in the queue.
C25_RoundRobinAcrossTenants ==
    [][(cur.phase = "idle" /\ leased # 0 /\ stats'.leases = stats.leases + 1)
        => \A e \in queue :
              (e.run_id = leased' /\ e.tenant_id = TenantOf(leased))
                 => ~\E b \in queue : b.tenant_id # e.tenant_id /\ b.priority = e.priority]_vars

----------------------------------------------------------------------------
(* Further properties of the execution engine, checked under Spec *)

\* C26: a resume of a failed run is accepted and changes no attempt; a resume call
\* with no failure injected that meets a step whose retries were exhausted records
\* the next attempt number of that very step as ok and moves on to the step after it;
\* such a call ends only with the run completed.
C26_ResumeAfterExhaustion ==
    [][/\ \A r \in Runs : \A c \in ResumeControls :
             (run_status[r] = "failed" /\ Resume(r, c))
                => /\ run_status'[r] = "running" /\ cur'.run = r /\ cur'.phase = "exec"
                   /\ history' = history /\ resp' = resp
       /\ (cur.op = "resume" /\ cur.phase = "exec" /\ FailSteps(cur) = {})
          => LET h == history[cur.run]
                 i == NextStep(h)
             IN /\ Cardinality(ErrorRows(h, i)) >= MAX_ATTEMPTS
                   => /\ history'[cur.run] =
                            h \cup {[step_index |-> i, step_name |-> STEPS[i],
                                      attempt |-> Cardinality(RowsOf(h, i)) + 1,
                                      status |-> "ok", error |-> "null"]}
                      /\ NextStep(history'[cur.run]) = i + 1
                      /\ run_status'[cur.run] \in {"running", "completed"}
                /\ cur'.phase = "idle" => run_status'[cur.run] = "completed"]_vars

\* a run completed after its research step had exhausted three attempts: the fourth
\* attempt, made by a later call, is the ok one
C26_Witness ==
    \E r \in Runs :
        /\ run_status[r] = "completed"
        /\ {x.attempt : x \in ErrorRows(history[r], 3)} = 1..MAX_ATTEMPTS
        /\ \E x \in OkRows(history[r], 3) : x.attempt = MAX_ATTEMPTS + 1
        /\ cur.phase = "idle" /\ resp = "ok"

\* C27: the attempt that pauses a run is the ok attempt of the stop_after step, it is
\* recorded, no step after it has any attempt and the call ends there; a failed
\* attempt of the stop_after step never pauses the run, and the third one in the call
\* makes it failed; every paused run has its steps ok up to a point and no attempt
\* beyond it.
C27_PauseAfterStopStep ==
    [][/\ cur.phase = "exec" =>
             LET r == cur.run
             IN /\ run_status'[r] = "paused"
                   => /\ cur'.phase = "idle"
                      /\ \E x \in NewRows(r) :
                            /\ x.step_name = cur.stop_after /\ x.status = "ok"
                            /\ \A y \in history'[r] : y.step_index <= x.step_index
                /\ \A x \in NewRows(r) :
                      (x.step_name = cur.stop_after /\ x.status = "error")
                         => /\ run_status'[r] \in {"running", "failed"}
                            /\ (cur.tries = MAX_ATTEMPTS - 1) = (run_status'[r] = "failed")
       /\ \A r \in Runs :
             run_status[r] = "paused"
                => \E k \in 1..(NSteps - 1) :
                      /\ \A j \in 1..k : HasOk(history[r], j)
                      /\ \A y \in history[r] : y.step_index <= k]_vars

\* run 1 is paused after research, its design step having been retried on the way;
\* run 2 is failed at research, nothing recorded beyond it
C27_Witness ==
    /\ run_status[1] = "paused" /\ ErrorRows(history[1], 2) # {}
    /\ NextStep(history[1]) = 4 /\ RowsOf(history[1], 4) = {}
    /\ run_status[2] = "failed" /\ NextStep(history[2]) = 3
    /\ RowsOf(history[2], 4) = {}

\* C28: while a call advances a run, its first attempt of a step has no delay tracked,
\* every retry has exactly one, the first delay is the base unit and each further one
\* is twice the one before (1x, 2x, 4x the unit); the delay is only a tracked value:
\* the next attempt is never held back.
C28_BackoffDoubles ==
    /\ BackoffDelay(1) = BACKOFF_BASE
    /\ \A k \in 1..MAX_ATTEMPTS : BackoffDelay(k + 1) = 2 * BackoffDelay(k)
    /\ cur.phase = "exec" =>
          /\ Len(cur.backoff) = cur.tries
          /\ cur.tries < MAX_ATTEMPTS
          /\ cur.tries > 0 => cur.backoff[1] = BACKOFF_BASE
          /\ \A k \in 2..Len(cur.backoff) : cur.backoff[k] = 2 * cur.backoff[k - 1]
          /\ ENABLED Attempt

\* a resume about to make the third attempt of qa in this call, delays of one and two
\* units tracked
C28_Witness ==
    /\ cur.op = "resume" /\ cur.phase = "exec"
    /\ NextStep(history[cur.run]) = 6
    /\ cur.tries = 2 /\ cur.backoff = <<BACKOFF_BASE, 2 * BACKOFF_BASE>>

\* the status the attempt history of a run stands for; `advancing`: a start or resume
\* call is at work on the run
DerivedStatus(h, advancing) ==
    IF \A i \in StepIndexes : \E x \in h : x.step_index = i /\ x.status = "ok" THEN "completed"
    ELSE IF advancing THEN "running"
    ELSE IF h = {} THEN "pending"
    ELSE IF \E x \in h : \A y \in h : /\ y.step_index <= x.step_index
                                       /\ y.step_index = x.step_index => y.status = "error"
         THEN "failed"
    ELSE "paused"

\* C29: in every state the status of a run is the one its attempt history stands for:
\* completed when every step has its ok attempt, running while a call advances it,
\* pending with no attempt, failed when the last step attempted has only errors,
\* paused when the last step attempted is ok; so runs with the same history, neither or
\* both being advanced, have the same status.
C29_StatusFollowsHistory ==
    \A r \in Runs :
        run_status[r] = DerivedStatus(history[r], cur.run = r /\ cur.phase = "exec")

\* two runs with the same non-empty history, both failed
C29_Witness ==
    /\ history[1] = history[2] /\ history[1] # {}
    /\ run_status[1] = "failed" /\ run_status[2] = "failed"
    /\ cur.phase = "idle"

\* C30: no step of start, resume, step(), enqueue or policy_set changes or removes an
\* attempt row: the history of every run before the step is a subset of its history
\* after it, every row with the fields it had.
C30_HistoryAppendOnly ==
    [][\A r \in Runs : history[r] \subseteq history'[r]]_vars

\* a run holds an earlier and a later attempt of one step, written by step(); run 1 holds
\* rows written by start; a policy_set and an enqueue have acted since
C30_Witness ==
    /\ \E r \in Runs : \E x, y \in history[r] :
           x.step_index = y.step_index /\ x.attempt < y.attempt
    /\ Cardinality(history[1]) >= 2
    /\ policy.global_concurrency # SCHED_CONCURRENCY
    /\ queue # {}
    /\ stats.leases > 0

C32_LeaseReleasedBeforeReturn ==
    /\ cur.phase = "idle" => active = {}
    /\ cur.op = "step" => active = {cur.run}
    /\ cur.op \in {"start", "resume"} => active = {}
    /\ \A t \in {TenantOf(r) : r \in Runs} :
           TenantActive(t) = IF cur.op = "step" /\ TenantOf(cur.run) = t THEN 1 ELSE 0

\* step() returned from a lease whose run failed terminally and from a lease of a
\* completed run the Resume Controller refused; no slot is held
C32_Witness ==
    /\ cur.phase = "idle"
    /\ active = {}
    /\ resp = "InvalidStateError"
    /\ leased # 0
    /\ run_status[leased] = "completed"
    /\ \E r \in Runs : run_status[r] = "failed"

\* C33: a run a call has set running is later at rest in paused, completed or failed with
\* the call over; no run is running between calls; a call that goes on to another attempt
\* of a step has made fewer than 3 of them; the QA loop count is raised only below the
\* call's max_qa_loops.
C33_CallsTerminate ==
    /\ \A r \in Runs :
           (run_status[r] = "running") ~>
               (cur.phase = "idle" /\ run_status[r] \in {"paused", "completed", "failed"})
    /\ [](cur.phase = "idle" => \A r \in Runs : run_status[r] # "running")
    /\ [](cur.phase = "exec" => cur.tries < MAX_ATTEMPTS)
    /\ [][\A r \in Runs : qa_loops'[r] # qa_loops[r] =>
              /\ qa_loops'[r] = qa_loops[r] + 1
              /\ qa_loops[r] < cur.max_qa_loops]_vars

\* calls are over that left run 1 failed in the QA loop after it had looped back twice and
\* run 3 failed under step()
C33_Witness ==
    /\ cur.phase = "idle"
    /\ run_status[1] = "failed" /\ qa_loops[1] = 2
    /\ run_status[3] = "failed"

\* C34: a step between calls, a process restart among them, leaves every run's attempt
\* history, status and QA loop count as they were; and the row an attempt of a resume
\* call adds is fixed by the run's history alone: it is a row of the lowest step with no
\* ok attempt, numbered one more than the rows that step has. So a resume after a restart
\* executes the step and attempt number it would have executed without it, and no step
\* that has an ok attempt.
C34_RestartKeepsResumePoint ==
    [][/\ (cur.phase = "idle" /\ cur'.phase = "idle") =>
              /\ history' = history
              /\ run_status' = run_status
              /\ qa_loops' = qa_loops
       /\ (cur.op = "resume" /\ cur.phase = "exec") =>
              \A x \in history'[cur.run] \ history[cur.run] :
                  /\ ~\E y \in history[cur.run] :
                         y.step_index = x.step_index /\ y.status = "ok"
                  /\ \A j \in 1..(x.step_index - 1) :
                         \E y \in history[cur.run] : y.step_index = j /\ y.status = "ok"
                  /\ x.attempt =
                         Cardinality({y \in history[cur.run] : y.step_index = x.step_index}) + 1]_vars

\* the scheduler's counters are back at zero though step() had advanced run 3: the process
\* restarted; a resume of run 1, failed at research after three attempts, is about to make
\* the fourth attempt of research
C34_Witness ==
    /\ stats.leases = 0 /\ history[3] # {}
    /\ cur.op = "resume" /\ cur.run = 1 /\ cur.phase = "exec"
    /\ NextStep(history[1]) = 3
    /\ NextAttemptNo(history[1], 3) = MAX_ATTEMPTS + 1

\* C35: in every state, a run that has an attempt row of step i has an ok attempt of
\* every step before i.
C35_StepsInGraphOrder ==
    \A r \in Runs : \A x \in history[r] : \A j \in 1..(x.step_index - 1) :
        \E y \in history[r] : y.step_index = j /\ y.status = "ok"

\* a run got to its last step over two steps that were retried
C35_Witness ==
    \E r \in Runs :
        /\ \E x \in history[r] : x.step_index = NSteps
        /\ \E x \in history[r] : x.step_index = 2 /\ x.status = "error"
        /\ \E x \in history[r] : x.step_index = 6 /\ x.status = "error"

\* C36: in every state no run is both queued and active; the step that makes a run active
\* finds its entry in the queue and removes it; and no step puts an entry into the queue
\* for a run that is active.
C36_QueuedXorActive ==
    /\ [](\A r \in Runs : ~(Queued(r) /\ r \in active))
    /\ [][/\ \A r \in active' \ active :
                /\ EntriesOf(queue, r) # {}
                /\ EntriesOf(queue', r) = {}
          /\ \A r \in active : EntriesOf(queue', r) = {}]_vars

\* step() is at work on a leased run, whose entry is gone, while other entries wait
C36_Witness ==
    /\ cur.op = "step" /\ cur.phase = "exec"
    /\ active = {cur.run}
    /\ ~Queued(cur.run)
    /\ Cardinality(queue) = 2
    /\ history[cur.run] # {}

\* C37: every step of a step() call that leased a run leaves the attempt history, the
\* status and the queue entries of every other run as they were, and a step() call that
\* counts a skip leaves the histories, the statuses and the queue as they were.
C37_StepTouchesLeasedRunOnly ==
    [][/\ (cur.op = "step" \/ cur'.op = "step") =>
              LET r == IF cur.op = "step" THEN cur.run ELSE cur'.run
              IN \A o \in Runs \ {r} :
                     /\ history'[o] = history[o]
                     /\ run_status'[o] = run_status[o]
                     /\ EntriesOf(queue', o) = EntriesOf(queue, o)
       /\ stats'.skipped_due_to_quota # stats.skipped_due_to_quota =>
              /\ history' = history
              /\ run_status' = run_status
              /\ queue' = queue]_vars

\* a step() call has advanced its leased run while another run, completed under an
\* earlier lease, and a queued entry of the leased run's own tenant are as they were
C37_Witness ==
    /\ cur.op = "step" /\ cur.phase = "release"
    /\ history[cur.run] # {}
    /\ \E o \in Runs \ {cur.run} : run_status[o] = "completed"
    /\ \E e \in queue : e.tenant_id = TenantOf(cur.run) /\ e.priority = 1

\* C38: a step that changes the policy leaves the queue, the active set, the stats and
\* every run as they were; and each step() decision follows the policy in force when it
\* is taken: a lease happens only with the scheduler enabled and both caps above the
\* active counts, a skip only when the caps leave no queued entry room, and between calls
\* with entries queued, the scheduler enabled and both caps above zero the next step()
\* leases (below the lease bound of the model) and does not skip.
C38_PolicySetFrameAndEffect ==
    /\ [][/\ policy' # policy =>
                UNCHANGED <<queue, active, stats, history, run_status, qa_loops, cur>>
          /\ (cur.phase = "idle" /\ cur'.op = "step") =>
                /\ policy.enabled
                /\ Cardinality(active) < policy.global_concurrency
                /\ TenantActive(TenantOf(cur'.run)) < policy.tenant_max_active
          /\ stats'.skipped_due_to_quota # stats.skipped_due_to_quota =>
                /\ policy.enabled
                /\ \A e \in queue :
                       \/ Cardinality(active) >= policy.global_concurrency
                       \/ TenantActive(e.tenant_id) >= policy.tenant_max_active]_vars
    /\ [](/\ cur.phase = "idle" /\ queue # {} /\ policy.enabled
          /\ policy.global_concurrency > 0 /\ policy.tenant_max_active > 0
          => /\ ~ENABLED StepSkip
             /\ stats.leases < MaxLeases => ENABLED StepLease)

\* a step() that found every entry blocked by a cap of zero was counted as skipped, the
\* policy was then replaced, and the next step() has leased an entry
C38_Witness ==
    /\ stats.skipped_due_to_quota = 1
    /\ stats.leases = 1
    /\ cur.op = "step" /\ cur.phase = "exec" /\ history[cur.run] = {}
    /\ policy.global_concurrency > 0 /\ policy.tenant_max_active > 0

====
